---- MODULE Spec2Model ----
(***************************************************************************)
(* The LangFair evaluation worker (ai-eval-service): worker.py main /      *)
(* run_evaluation driving LangFairEvaluator.evaluate_batch and             *)
(* evaluate_response of evaluator.py.                                      *)
(*                                                                         *)
(* Three specifications share the variables:                               *)
(*   Spec        one run of the worker process, from standard input to     *)
(*               exit;                                                     *)
(*   ServerSpec  the HTTP server of main.py serving a sequence of          *)
(*               POST /evaluate requests on its module-level evaluator;    *)
(*   ParentSpec  the worker under the parent process that spawns it and    *)
(*               enforces the hard timeout.                                *)
(*                                                                         *)
(* Python values are modelled as follows.                                  *)
(*   str            a TLA+ string; lower(), strip() and the `in` substring *)
(*                  test are computed character by character.              *)
(*   a JSON value   [t |-> "str", v |-> s] or [t |-> "null", v |-> ""]     *)
(*                  (a field of an item that may or may not be a str).     *)
(*   a raw metric   [t |-> "num", n |-> k], None [t |-> "none"], a str     *)
(*                  [t |-> "text"] or a dict [t |-> "dict"]; a float is    *)
(*                  the integer k, 0 standing for 0.0.                     *)
(*   dict           the sequence of its <<key, value>> pairs in insertion  *)
(*                  order.                                                 *)
(* The scorers and the generator are external: every call of one picks its *)
(* outcome (raise, full result, partial result, ...) nondeterministically. *)
(***************************************************************************)
EXTENDS Integers, Sequences, FiniteSets, TLC

VARIABLES
    stdin,                  \* the content of standard input
    HAS_LLM_SUPPORT,        \* module flag read by _get_counterfactual_generator
    pc,                     \* position of the worker process
    evaluator,              \* the capability handles of the LangFairEvaluator (0 is None)
    built,                  \* number of constructions of each capability so far
    validated_items,        \* evaluate_batch: validated_items
    toxicity_results,       \* evaluate_batch: toxicity_results
    category_groups,        \* evaluate_batch: category_groups, in insertion order
    group_pos,              \* evaluate_batch: next group of the stereotype loop
    stereotype_results,     \* evaluate_batch: stereotype_results
    counterfactual_tasks,   \* evaluate_batch: the coroutines handed to asyncio.gather
    counterfactual_results, \* evaluate_batch: counterfactual_results
    ret,                    \* what run_evaluation returns, when it returns
    exc,                    \* the exception in flight, when there is one
    calls,                  \* log of the calls made to the external capabilities
    stdout,                 \* the documents printed so far
    exitcode,               \* the exit code, -1 while the process runs
    log,                    \* the records handed to the logger so far
    uses,                   \* which capability instance served which request
    lifecycle,              \* LangFairEvaluator() constructions and cleanup() calls so far
    http,                   \* main.py: the request being served and the responses sent
    parent                  \* the process that spawned the worker and waits for it

vars == <<stdin, HAS_LLM_SUPPORT, pc, evaluator, built, validated_items,
          toxicity_results, category_groups, group_pos, stereotype_results,
          counterfactual_tasks, counterfactual_results, ret, exc, calls,
          stdout, exitcode, log, uses, lifecycle, http, parent>>

(***************************************************************************)
(* Bounds of the model.                                                    *)
(***************************************************************************)
\* Batches of up to MaxVaried items are drawn freely from the item pool.
MaxVaried == 2
\* Number of longer batches (rotations of the scorable pool items) per length.
MaxRotations == 2

\* (variant of MAX_BATCH_ITEMS: the limit one too low)
MaxBatchItemsOffByOne == 5 - 1

\* Number of requests the HTTP server is followed through.
MaxRequests == 2

\* evaluator.py:286  if len(items) > 5
MAX_BATCH_ITEMS == 5

(***************************************************************************)
(* str operations                                                          *)
(***************************************************************************)
UPPERCASE == "ABCDEFGHIJKLMNOPQRSTUVWXYZ"
LOWERCASE == "abcdefghijklmnopqrstuvwxyz"
WHITESPACE == {" ", "\t", "\n"}

CharAt(s, i) == SubSeq(s, i, i)

\* the lower-case letter of every upper-case letter
LowerTable ==
    [c \in {CharAt(UPPERCASE, i) : i \in 1..Len(UPPERCASE)} |->
        CharAt(LOWERCASE, CHOOSE i \in 1..Len(UPPERCASE) : CharAt(UPPERCASE, i) = c)]

LowerChar(c) == IF c \in DOMAIN LowerTable THEN LowerTable[c] ELSE c

RECURSIVE Lower(_)
\* str.lower()
Lower(s) ==
    IF Len(s) = 0 THEN ""
    ELSE LowerChar(CharAt(s, 1)) \o Lower(SubSeq(s, 2, Len(s)))

RECURSIVE LStrip(_)
LStrip(s) ==
    IF Len(s) > 0 /\ CharAt(s, 1) \in WHITESPACE
    THEN LStrip(SubSeq(s, 2, Len(s)))
    ELSE s

RECURSIVE RStrip(_)
RStrip(s) ==
    IF Len(s) > 0 /\ CharAt(s, Len(s)) \in WHITESPACE
    THEN RStrip(SubSeq(s, 1, Len(s) - 1))
    ELSE s

\* str.strip()
Strip(s) == RStrip(LStrip(s))

\* sub in s
Contains(sub, s) ==
    \E i \in 1..(Len(s) - Len(sub) + 1) : SubSeq(s, i, i + Len(sub) - 1) = sub

\* str(e)[:n]
Truncate(s, n) == IF Len(s) > n THEN SubSeq(s, 1, n) ELSE s

(***************************************************************************)
(* values                                                                  *)
(***************************************************************************)
JStr(s) == [t |-> "str", v |-> s]
JNull == [t |-> "null", v |-> ""]
IsStr(x) == x.t = "str"

Num(k) == [t |-> "num", n |-> k]
None == [t |-> "none", n |-> 0]
\* a str, respectively a dict, held as a value of a dict
TextVal(s) == [t |-> "text", n |-> 0, v |-> s]
DictVal(d) == [t |-> "dict", n |-> 0, d |-> d]

HasKey(d, k) == \E i \in 1..Len(d) : d[i][1] = k
\* dict.get(k, default)
Get(d, k, default) ==
    IF HasKey(d, k) THEN d[CHOOSE i \in 1..Len(d) : d[i][1] = k][2] ELSE default

(***************************************************************************)
(* The inputs: items, batches and the content of standard input            *)
(***************************************************************************)
Item(q, r, c, cf) ==
    [question_text |-> q, user_response |-> r, category |-> c,
     include_counterfactual |-> cf]

\* Items whose response passes validation; the last one has a category that
\* is not a str (JSON null).
ScorablePool ==
    << Item(JStr("p?"), JStr("fine"), JStr("gender"), FALSE),
       Item(JStr("q?"), JStr("rude"), JStr("Race"), TRUE),
       Item(JStr("p?"), JStr("rude"), JStr("religion"), FALSE),
       Item(JStr("q?"), JStr("fine"), JStr("age"), TRUE),
       Item(JStr("p?"), JStr("fine"), JStr("nationality"), FALSE),
       Item(JStr("q?"), JStr("rude"), JStr("ethnicity"), TRUE),
       Item(JStr("p?"), JStr("fine"), JNull, FALSE) >>

\* Items whose response is empty, whitespace-only or not a str.
UnscorablePool ==
    << Item(JStr("p?"), JStr(""), JStr("gender"), FALSE),
       Item(JStr("q?"), JStr(" \t"), JStr("race"), TRUE),
       Item(JStr("p?"), JNull, JStr("age"), FALSE) >>

\* An item whose category label carries surrounding whitespace.
PaddedPool ==
    << Item(JStr("q?"), JStr("rude"), JStr(" Race "), TRUE) >>

ItemPool == ScorablePool \o PaddedPool \o UnscorablePool

Items == {ItemPool[i] : i \in 1..Len(ItemPool)}

ShortBatches == UNION {[1..n -> Items] : n \in 0..MaxVaried}

\* n items of the pool of scorable items with a str category, from the s-th on
Rotation(s, n) ==
    [k \in 1..n |-> ScorablePool[((s + k - 2) % (Len(ScorablePool) - 1)) + 1]]

LongBatches ==
    {Rotation(s, n) : s \in 1..MaxRotations,
                      n \in {MAX_BATCH_ITEMS, MAX_BATCH_ITEMS + 1}}

Batches == ShortBatches \cup LongBatches

\* What json.loads makes of standard input: it raises (kind "nonjson"), it
\* returns a value that is not a dict (kind "nonobject"), or it returns a
\* dict whose "type" is "batch" (with its "items") or anything else (the
\* single-item payload, whose fields are those of items[1]).
Stdin ==
    {[kind |-> "nonjson", type |-> "", items |-> <<>>],
     [kind |-> "nonobject", type |-> "", items |-> <<>>]}
    \cup {[kind |-> "object", type |-> "batch", items |-> b] : b \in Batches}
    \cup {[kind |-> "object", type |-> "single", items |-> <<i>>] : i \in Items}

(***************************************************************************)
(* The external capabilities (langfair): what a call returns               *)
(***************************************************************************)
ToxicityOutcomes ==
    {"raise", "aggregate", "per_item", "partial", "numbers", "misaligned", "out_of_range"}
StereotypeOutcomes == {"raise", "full", "partial"}
CounterfactualOutcomes == {"generate_raises", "compare_raises", "full"}

\* The toxicity the classifier assigns to one prompt/response pair.
PairToxicity(prompt, response) ==
    (IF response = "rude" THEN 8 ELSE 1) + (IF prompt = "q?" THEN 1 ELSE 0)

RECURSIVE MaxToxicity(_, _, _)
MaxToxicity(prompts, responses, i) ==
    IF i > Len(responses) THEN 0
    ELSE LET rest == MaxToxicity(prompts, responses, i + 1)
             here == PairToxicity(prompts[i], responses[i])
         IN IF here > rest THEN here ELSE rest

\* ToxicityMetrics.evaluate(prompts, responses, return_data=True), when it
\* returns: the aggregate metrics, alone, cut down to one key, or with the
\* per-item scores: one dict per item, one number per item, or a list that
\* has one entry more than there are items; or aggregate metrics that lie
\* outside [0,1]. Scores are counted in tenths: Num(10) stands for 1.0.
ToxicityEvaluate(outcome, prompts, responses) ==
    LET metrics ==
            << <<"Toxic Fraction", Num(5)>>,
               <<"Expected Maximum Toxicity", Num(MaxToxicity(prompts, responses, 1))>>,
               <<"Toxicity Probability", Num(4)>> >>
        scores ==
            [i \in 1..Len(responses) |->
                DictVal(<< <<"toxic_fraction", Num(0)>>,
                           <<"expected_max_toxicity",
                             Num(PairToxicity(prompts[i], responses[i]))>>,
                           <<"toxicity_probability", None>> >>)]
    IN CASE outcome = "aggregate" -> << <<"metrics", metrics>> >>
         [] outcome = "partial" -> << <<"metrics", << <<"Toxic Fraction", Num(5)>> >> >> >>
         [] outcome = "per_item" ->
                << <<"metrics", metrics>>, <<"data", << <<"scores", scores>> >> >> >>
         [] outcome = "numbers" ->
                << <<"metrics", metrics>>,
                   <<"data", << <<"scores",
                       [i \in 1..Len(responses) |->
                           Num(PairToxicity(prompts[i], responses[i]))]>> >> >> >>
         [] outcome = "misaligned" ->
                << <<"metrics", metrics>>,
                   <<"data", << <<"scores", Append(scores, scores[1])>> >> >> >>
         [] outcome = "out_of_range" ->
                << <<"metrics",
                     << <<"Toxic Fraction", Num(12)>>,
                        <<"Expected Maximum Toxicity", Num(-3)>>,
                        <<"Toxicity Probability", Num(4)>> >> >> >>

CategoryBase(category) ==
    CASE category = "gender" -> 1
      [] category = "race" -> 2
      [] category = "religion" -> 3
      [] category = "age" -> 4
      [] OTHER -> 9

\* StereotypeMetrics.evaluate(responses, categories=[category]), when it
\* returns: the three metrics with the category-qualified fraction key, or a
\* partial dictionary whose fraction key has another name.
StereotypeEvaluate(outcome, responses, category) ==
    LET b == CategoryBase(category)
    IN CASE outcome = "full" ->
                << <<"metrics",
                     << <<"Stereotype Association", Num(b)>>,
                        <<"Cooccurrence Bias", Num(b + 1)>>,
                        <<"Stereotype Fraction - " \o category, Num(b + Len(responses))>> >> >> >>
         [] outcome = "partial" ->
                << <<"metrics",
                     << <<"Fraction of stereotypes", Num(b + 2)>>,
                        <<"Cooccurrence Bias", Num(b + 1)>> >> >> >>

\* CounterfactualMetrics.evaluate(texts1, texts2, attribute), when generation
\* and comparison both return.
CounterfactualEvaluate(attribute) ==
    LET b == CategoryBase(attribute)
    IN << <<"metrics",
            << <<"male-female",
                 DictVal(<< <<"Cosine Similarity", Num(9 - b)>>,
                            <<"RougeL Similarity", Num(8 - b)>>,
                            <<"Bleu Similarity", None>>,
                            <<"Sentiment Bias", Num(b)>> >>)>> >> >> >>

(***************************************************************************)
(* LangFairEvaluator: the pure parts                                       *)
(***************************************************************************)
\* safe_float(value, default)
safe_float(value, default) ==
    CASE value.t = "none" -> default
      [] value.t = "num" -> value.n
      [] OTHER -> default

ZeroToxicity ==
    [toxic_fraction |-> 0, expected_max_toxicity |-> 0, toxicity_probability |-> 0]

_format_toxicity_metrics(toxicity_metrics) ==
    IF Len(toxicity_metrics) = 0 THEN ZeroToxicity
    ELSE [toxic_fraction |->
              safe_float(Get(toxicity_metrics, "Toxic Fraction", None), 0),
          expected_max_toxicity |->
              safe_float(Get(toxicity_metrics, "Expected Maximum Toxicity", None), 0),
          toxicity_probability |->
              safe_float(Get(toxicity_metrics, "Toxicity Probability", None), 0)]

ZeroStereotype ==
    [stereotype_association |-> 0, cooccurrence_bias |-> 0, stereotype_fraction |-> 0]

\* the first key of the dict that contains 'Stereotype Fraction', "" for None
StereotypeFractionKey(stereotype_metrics) ==
    LET hits == {i \in 1..Len(stereotype_metrics) :
                    Contains("Stereotype Fraction", stereotype_metrics[i][1])}
    IN IF hits = {} THEN ""
       ELSE stereotype_metrics[CHOOSE i \in hits : \A j \in hits : i <= j][1]

_format_stereotype_metrics(stereotype_metrics, category) ==
    IF Len(stereotype_metrics) = 0 THEN ZeroStereotype
    ELSE LET stereotype_fraction_key == StereotypeFractionKey(stereotype_metrics)
         IN [stereotype_association |->
                 safe_float(Get(stereotype_metrics, "Stereotype Association", None), 0),
             cooccurrence_bias |->
                 safe_float(Get(stereotype_metrics, "Cooccurrence Bias", None), 0),
             stereotype_fraction |->
                 IF stereotype_fraction_key # ""
                 THEN safe_float(Get(stereotype_metrics, stereotype_fraction_key, None), 0)
                 ELSE 0]

CounterfactualScore(cosine, rouge, bleu, sentiment) ==
    << <<"cosine_similarity", cosine>>, <<"rouge_similarity", rouge>>,
       <<"bleu_similarity", bleu>>, <<"sentiment_bias", sentiment>> >>

\* _format_counterfactual_metrics: metrics is the value of the first key, and
\* metrics.get raises AttributeError when that value is not a dict.
_format_counterfactual_metrics(counterfactual_metrics) ==
    IF Len(counterfactual_metrics) = 0
    THEN [raised |-> FALSE, value |-> CounterfactualScore(0, 0, 0, 0)]
    ELSE LET metrics == counterfactual_metrics[1][2]
         IN IF metrics.t # "dict"
            THEN [raised |-> TRUE, value |-> <<>>]
            ELSE [raised |-> FALSE,
                  value |-> CounterfactualScore(
                      safe_float(Get(metrics.d, "Cosine Similarity", None), 0),
                      safe_float(Get(metrics.d, "RougeL Similarity", None), 0),
                      safe_float(Get(metrics.d, "Bleu Similarity", None), 0),
                      safe_float(Get(metrics.d, "Sentiment Bias", None), 0))]

category_mapping ==
    << <<"gender", "gender">>, <<"race", "race">>, <<"ethnicity", "race">>,
       <<"religion", "religion">>, <<"age", "age">> >>

\* (variant of LangfairCategory: the fallback is another dimension)
LangfairCategoryDefaultRace(category) == Get(category_mapping, Lower(category), "race")

\* category_mapping.get(category.lower(), "gender"), for a str category
LangfairCategory(category) == Get(category_mapping, Lower(category), "gender")

\* (variant of DefaultToxicity: a default that is not zero)
DefaultToxicityNonZero ==
    << <<"Toxic Fraction", Num(0)>>, <<"Expected Maximum Toxicity", Num(1)>>,
       <<"Toxicity Probability", Num(0)>> >>

DefaultToxicity ==
    << <<"Toxic Fraction", Num(0)>>, <<"Expected Maximum Toxicity", Num(0)>>,
       <<"Toxicity Probability", Num(0)>> >>

DefaultStereotype(langfair_category) ==
    << <<"Stereotype Association", Num(0)>>, <<"Cooccurrence Bias", Num(0)>>,
       <<"Stereotype Fraction - " \o langfair_category, Num(0)>> >>

NoException == [type |-> "", msg |-> ""]
Exception(type, msg) == [type |-> type, msg |-> msg]

\* a field of an item, "" when it is not a str
StrOrEmpty(x) == IF IsStr(x) THEN x.v ELSE ""

\* (variant of FirstEmptyResponse: only the first item is checked)
FirstEmptyResponseHeadOnly(items, i) ==
    IF Len(items) > 0 /\ Strip(StrOrEmpty(items[1].user_response)) = "" THEN 1 ELSE 0

\* the first item of the batch, from the i-th on, whose response is empty
\* after strip(); 0 when there is none
RECURSIVE FirstEmptyResponse(_, _)
FirstEmptyResponse(items, i) ==
    IF i > Len(items) THEN 0
    ELSE IF Strip(StrOrEmpty(items[i].user_response)) = "" THEN i
    ELSE FirstEmptyResponse(items, i + 1)

\* evaluate_batch, the validation of the batch: the exception it raises, or
\* the validated items
ValidateBatch(items) ==
    LET bad == FirstEmptyResponse(items, 1)
    IN IF Len(items) > MAX_BATCH_ITEMS
       THEN [exc |-> Exception("ValueError", "Batch evaluation supports maximum 5 items"),
             items |-> <<>>]
       ELSE IF Len(items) = 0
       THEN [exc |-> Exception("ValueError",
                               "At least one item is required for batch evaluation"),
             items |-> <<>>]
       ELSE IF bad # 0
       THEN [exc |-> Exception("ValueError",
                               "Item " \o ToString(bad - 1)
                                   \o ": user_response cannot be empty"),
             items |-> <<>>]
       ELSE [exc |-> NoException,
             items |-> [i \in 1..Len(items) |->
                          [question_text |-> StrOrEmpty(items[i].question_text),
                           user_response |-> StrOrEmpty(items[i].user_response),
                           category |-> items[i].category,
                           include_counterfactual |-> items[i].include_counterfactual,
                           index |-> i - 1]]]

\* (variant of GroupItems: every item opens a group of its own)
GroupItemsUngrouped(items, i, groups) ==
    [k \in 1..Len(items) |->
        [category |-> LangfairCategory(items[k].category.v), items |-> <<items[k]>>]]

\* (variant of GroupItems: a new group is put in front of the groups there are)
RECURSIVE GroupItemsNewestFirst(_, _, _)
GroupItemsNewestFirst(items, i, groups) ==
    IF i > Len(items) THEN groups
    ELSE LET langfair_category == LangfairCategory(items[i].category.v)
             at == {g \in 1..Len(groups) : groups[g].category = langfair_category}
         IN IF at = {}
            THEN GroupItemsNewestFirst(items, i + 1,
                     << [category |-> langfair_category, items |-> <<items[i]>>] >>
                         \o groups)
            ELSE GroupItemsNewestFirst(items, i + 1,
                     [groups EXCEPT ![CHOOSE g \in at : TRUE].items = Append(@, items[i])])

\* category_groups after the items from the i-th on have been added to groups
RECURSIVE GroupItems(_, _, _)
GroupItems(items, i, groups) ==
    IF i > Len(items) THEN groups
    ELSE LET langfair_category == LangfairCategory(items[i].category.v)
             at == {g \in 1..Len(groups) : groups[g].category = langfair_category}
         IN IF at = {}
            THEN GroupItems(items, i + 1,
                     Append(groups, [category |-> langfair_category,
                                     items |-> <<items[i]>>]))
            ELSE GroupItems(items, i + 1,
                     [groups EXCEPT ![CHOOSE g \in at : TRUE].items = Append(@, items[i])])

\* item['category'].lower() raises AttributeError on a category that is not a str
CategoryLowerRaises(items) == \E i \in 1..Len(items) : ~IsStr(items[i].category)

\* list.sort(key=lambda x: x[0]): insertion of e into the sorted list s, after
\* the entries with the same key (the sort is stable)
RECURSIVE InsertByIndex(_, _)
InsertByIndex(s, e) ==
    IF Len(s) = 0 THEN <<e>>
    ELSE IF s[Len(s)].idx <= e.idx THEN Append(s, e)
    ELSE Append(InsertByIndex(SubSeq(s, 1, Len(s) - 1), e), s[Len(s)])

\* (variant of SortByIndex: the list is left in group order)
SortByIndexSkipped(s) == s

RECURSIVE SortByIndex(_)
SortByIndex(s) ==
    IF Len(s) = 0 THEN <<>>
    ELSE InsertByIndex(SortByIndex(SubSeq(s, 1, Len(s) - 1)), s[Len(s)])

(***************************************************************************)
(* The state after the process has started                                 *)
(***************************************************************************)
NoHandles ==
    [toxicity_metrics |-> 0, stereotype_metrics |-> 0, counterfactual_metrics |-> 0,
     llm |-> 0, counterfactual_generator |-> 0]

NoCalls == [toxicity |-> <<>>, stereotype |-> <<>>, generate |-> <<>>, compare |-> <<>>]

\* no LangFairEvaluator has been constructed, none has been cleaned up
NoLifecycle == [constructed |-> 0, cleaned |-> 0]

\* the worker runs on its own: no HTTP server, no parent process in the model
NoHttp == [request |-> <<>>, responses |-> <<>>]
NoParent == [state |-> "absent", response |-> "", killed |-> ""]

\* os.getenv("GEMINI_API_KEY", ""): the environment provides a key
GEMINI_API_KEY == "key"

\* The values of the module flag HAS_LLM_SUPPORT. evaluator.py line 7 binds
\* it to False, and with it no generator is ever constructed; the flag is
\* what tells a build with the LLM packages from one without, and both
\* builds are covered.
LlmSupportBuilds == BOOLEAN

Init ==
    /\ stdin \in Stdin
    /\ HAS_LLM_SUPPORT \in LlmSupportBuilds
    /\ pc = "main"
    /\ evaluator = NoHandles
    /\ built = NoHandles
    /\ validated_items = <<>>
    /\ toxicity_results = <<>>
    /\ category_groups = <<>>
    /\ group_pos = 0
    /\ stereotype_results = <<>>
    /\ counterfactual_tasks = <<>>
    /\ counterfactual_results = <<>>
    /\ ret = <<>>
    /\ exc = NoException
    /\ calls = NoCalls
    /\ stdout = <<>>
    /\ exitcode = -1
    /\ log = <<>>
    /\ uses = {}
    /\ lifecycle = NoLifecycle
    /\ http = NoHttp
    /\ parent = NoParent

batch_vars ==
    <<validated_items, toxicity_results, category_groups, group_pos,
      stereotype_results, counterfactual_tasks, counterfactual_results>>

\* a lazy getter: the capability h is constructed when its handle is None
Construct(ev, h) == IF ev[h] = 0 THEN [ev EXCEPT ![h] = built[h] + 1] ELSE ev
\* (variant of CountBuilt: the getter constructs on every call)
CountBuiltAlways(b, ev, h) == [b EXCEPT ![h] = @ + 1]

CountBuilt(b, ev, h) == IF ev[h] = 0 THEN [b EXCEPT ![h] = @ + 1] ELSE b

\* the request in which instance i of capability h was constructed
MadeIn(us, h, i) == (CHOOSE u \in us : u.capability = h /\ u.instance = i).made

\* the getter of capability h returns its instance while request r is served
Use(us, ev, h, r) ==
    us \cup {[capability |-> h,
              instance |-> IF ev[h] = 0 THEN built[h] + 1 ELSE ev[h],
              made |-> IF ev[h] = 0 THEN r ELSE MadeIn(us, h, ev[h]),
              request |-> r]}

\* the worker process serves one request
WorkerRequest == 1

\* logger.error(msg) / logger.warning(msg), when cond holds
LogRecord(level, msg) == [level |-> level, msg |-> msg]
Logged(lg, cond, level, msg) == IF cond THEN Append(lg, LogRecord(level, msg)) ELSE lg

(***************************************************************************)
(* worker.py: main, up to the call of run_evaluation                       *)
(***************************************************************************)
\* main: sys.stdin.read() and json.loads; on JSONDecodeError the error
\* document is printed and the process exits with 1
MainRead ==
    /\ pc = "main"
    /\ IF stdin.kind = "nonjson"
       THEN /\ stdout' = Append(stdout,
                    [success |-> FALSE, error |-> "Invalid JSON input: Expecting value"])
            /\ exitcode' = 1
            /\ pc' = "exited"
       ELSE /\ pc' = "run_evaluation"
            /\ UNCHANGED <<stdout, exitcode>>
    /\ UNCHANGED <<stdin, HAS_LLM_SUPPORT, evaluator, built, batch_vars, ret, exc, calls>>
    /\ UNCHANGED <<log, uses, lifecycle, http, parent>>

\* run_evaluation: the evaluator is constructed; payload.get raises
\* AttributeError on a payload that is not a dict
RunEvaluation ==
    /\ pc = "run_evaluation"
    /\ evaluator' = NoHandles
    /\ IF stdin.kind = "nonobject"
       THEN /\ exc' = Exception("AttributeError", "'list' object has no attribute 'get'")
            /\ pc' = "finally"
       ELSE /\ exc' = exc
            /\ pc' = IF stdin.type = "batch" THEN "evaluate_batch" ELSE "evaluate_response"
    /\ lifecycle' = [lifecycle EXCEPT !.constructed = @ + 1]
    /\ UNCHANGED <<stdin, HAS_LLM_SUPPORT, built, batch_vars, ret, calls, stdout, exitcode>>
    /\ UNCHANGED <<log, uses, http, parent>>

(***************************************************************************)
(* evaluator.py: evaluate_batch                                            *)
(***************************************************************************)
\* lines 286-313: the size checks and the validation loop
BatchValidate ==
    /\ pc = "evaluate_batch"
    /\ LET v == ValidateBatch(stdin.items)
       IN /\ validated_items' = v.items
          /\ exc' = v.exc
          /\ pc' = IF v.exc = NoException THEN "toxicity" ELSE "finally"
    /\ UNCHANGED <<stdin, HAS_LLM_SUPPORT, evaluator, built, toxicity_results,
                   category_groups, group_pos, stereotype_results, counterfactual_tasks,
                   counterfactual_results, ret, calls, stdout, exitcode>>
    /\ UNCHANGED <<log, uses, lifecycle, http, parent>>

\* the metrics of one entry of toxicity_data['scores'] (lines 332-336)
ItemToxicityMetrics(scores) ==
    << <<"Toxic Fraction",
         IF scores.t = "dict" THEN Get(scores.d, "toxic_fraction", Num(0)) ELSE Num(0)>>,
       <<"Expected Maximum Toxicity",
         IF scores.t = "dict" THEN Get(scores.d, "expected_max_toxicity", Num(0))
         ELSE IF scores.t = "num" THEN scores ELSE Num(0)>>,
       <<"Toxicity Probability",
         IF scores.t = "dict" THEN Get(scores.d, "toxicity_probability", Num(0))
         ELSE Num(0)>> >>

\* (variant of ToxicityResults: the per-item data is not read)
ToxicityResultsAggregateOnly(outcome, items) ==
    LET n == Len(items)
        all_prompts == [i \in 1..n |-> items[i].question_text]
        all_responses == [i \in 1..n |-> items[i].user_response]
    IN IF outcome = "raise" THEN [i \in 1..n |-> DefaultToxicity]
       ELSE [i \in 1..n |->
                Get(ToxicityEvaluate(outcome, all_prompts, all_responses), "metrics", <<>>)]

\* lines 318-352: toxicity_results, from what the scorer did
ToxicityResults(outcome, items) ==
    LET n == Len(items)
        all_prompts == [i \in 1..n |-> items[i].question_text]
        all_responses == [i \in 1..n |-> items[i].user_response]
    IN IF outcome = "raise" THEN [i \in 1..n |-> DefaultToxicity]
       ELSE LET toxicity_result == ToxicityEvaluate(outcome, all_prompts, all_responses)
                batch_toxicity_metrics == Get(toxicity_result, "metrics", <<>>)
                toxicity_data == Get(toxicity_result, "data", <<>>)
                per_item_scores == Get(toxicity_data, "scores", <<>>)
            IN IF Len(toxicity_data) > 0 /\ Len(per_item_scores) > 0
                   /\ Len(per_item_scores) = n
               THEN [i \in 1..n |-> ItemToxicityMetrics(per_item_scores[i])]
               ELSE [i \in 1..n |-> batch_toxicity_metrics]

\* lines 315-352: the toxicity scorer is called once, with the whole batch
BatchToxicity ==
    /\ pc = "toxicity"
    /\ \E outcome \in ToxicityOutcomes :
          /\ toxicity_results' = ToxicityResults(outcome, validated_items)
          /\ calls' = [calls EXCEPT !.toxicity = Append(@,
                 [prompts |-> [i \in 1..Len(validated_items) |->
                                  validated_items[i].question_text],
                  responses |-> [i \in 1..Len(validated_items) |->
                                    validated_items[i].user_response],
                  outcome |-> outcome])]
          /\ log' = Logged(log, outcome = "raise", "ERROR",
                           "Error evaluating toxicity in batch")
    /\ evaluator' = Construct(evaluator, "toxicity_metrics")
    /\ built' = CountBuilt(built, evaluator, "toxicity_metrics")
    /\ uses' = Use(uses, evaluator, "toxicity_metrics", WorkerRequest)
    /\ pc' = "group"
    /\ UNCHANGED <<lifecycle, http, parent>>
    /\ UNCHANGED <<stdin, HAS_LLM_SUPPORT, validated_items, category_groups, group_pos,
                   stereotype_results, counterfactual_tasks, counterfactual_results,
                   ret, exc, stdout, exitcode>>

\* lines 362-368: the items are grouped by resolved category
BatchGroup ==
    /\ pc = "group"
    /\ IF CategoryLowerRaises(validated_items)
       THEN /\ exc' = Exception("AttributeError",
                                "'NoneType' object has no attribute 'lower'")
            /\ pc' = "finally"
            /\ UNCHANGED <<category_groups, group_pos>>
       ELSE /\ category_groups' = GroupItems(validated_items, 1, <<>>)
            /\ group_pos' = 1
            /\ pc' = "stereotype"
            /\ exc' = exc
    /\ UNCHANGED <<stdin, HAS_LLM_SUPPORT, evaluator, built, validated_items,
                   toxicity_results, stereotype_results, counterfactual_tasks,
                   counterfactual_results, ret, calls, stdout, exitcode>>
    /\ UNCHANGED <<log, uses, lifecycle, http, parent>>

\* (variant of GroupStereotypeResults: every entry of the group carries the
\* index of the group's first item)
GroupStereotypeResultsFirstIndex(outcome, group) ==
    LET group_responses == [i \in 1..Len(group.items) |-> group.items[i].user_response]
        group_stereotype_metrics ==
            IF outcome = "raise" THEN DefaultStereotype(group.category)
            ELSE Get(StereotypeEvaluate(outcome, group_responses, group.category),
                     "metrics", <<>>)
    IN [i \in 1..Len(group.items) |->
           [idx |-> group.items[1].index, metrics |-> group_stereotype_metrics,
            category |-> group.category]]

\* lines 379-392: the entries one group adds to stereotype_results
GroupStereotypeResults(outcome, group) ==
    LET group_responses == [i \in 1..Len(group.items) |-> group.items[i].user_response]
        group_stereotype_metrics ==
            IF outcome = "raise" THEN DefaultStereotype(group.category)
            ELSE Get(StereotypeEvaluate(outcome, group_responses, group.category),
                     "metrics", <<>>)
    IN [i \in 1..Len(group.items) |->
           [idx |-> group.items[i].index, metrics |-> group_stereotype_metrics,
            category |-> group.category]]

\* lines 370-394: one iteration of the loop over category_groups; the sort
\* follows the last one
BatchStereotype ==
    /\ pc = "stereotype"
    /\ group_pos <= Len(category_groups)
    /\ LET group == category_groups[group_pos]
           last == group_pos = Len(category_groups)
       IN \E outcome \in StereotypeOutcomes :
             /\ stereotype_results' =
                    LET added == stereotype_results \o GroupStereotypeResults(outcome, group)
                    IN IF last THEN SortByIndex(added) ELSE added
             /\ calls' = [calls EXCEPT !.stereotype = Append(@,
                    [responses |-> [i \in 1..Len(group.items) |->
                                       group.items[i].user_response],
                     category |-> group.category,
                     outcome |-> outcome])]
             /\ log' = Logged(log, outcome = "raise", "ERROR",
                              "Error evaluating stereotypes for category "
                                  \o group.category)
             /\ pc' = IF last THEN "counterfactual" ELSE "stereotype"
    /\ group_pos' = group_pos + 1
    /\ evaluator' = Construct(evaluator, "stereotype_metrics")
    /\ built' = CountBuilt(built, evaluator, "stereotype_metrics")
    /\ uses' = Use(uses, evaluator, "stereotype_metrics", WorkerRequest)
    /\ UNCHANGED <<lifecycle, http, parent>>
    /\ UNCHANGED <<stdin, HAS_LLM_SUPPORT, validated_items, toxicity_results,
                   category_groups, counterfactual_tasks, counterfactual_results,
                   ret, exc, stdout, exitcode>>

\* (variant of WantsCounterfactual: the flag of the item is not read)
WantsCounterfactualAnyItem(item) == Lower(item.category.v) \in {"gender", "race"}

\* line 400: the item asks for a counterfactual evaluation the code supports
WantsCounterfactual(item) ==
    item.include_counterfactual /\ Lower(item.category.v) \in {"gender", "race"}

\* _get_counterfactual_generator: whether it returns a generator
GeneratorAvailable(ev) ==
    ev.counterfactual_generator # 0 \/ (HAS_LLM_SUPPORT /\ GEMINI_API_KEY # "")

\* lines 398-410: the coroutines created for the items from the i-th on
RECURSIVE CounterfactualTasks(_, _, _)
CounterfactualTasks(items, i, available) ==
    IF i > Len(items) THEN <<>>
    ELSE (IF WantsCounterfactual(items[i]) /\ available
          THEN << [question_text |-> items[i].question_text,
                   langfair_category |-> LangfairCategory(items[i].category.v),
                   index |-> items[i].index,
                   done |-> FALSE,
                   result |-> <<>>] >>
          ELSE <<>>) \o CounterfactualTasks(items, i + 1, available)

\* lines 396-410: counterfactual_results is allocated and the tasks are created
BatchDispatch ==
    /\ pc = "counterfactual"
    /\ LET asked == \E i \in 1..Len(validated_items) :
                        WantsCounterfactual(validated_items[i])
           available == GeneratorAvailable(evaluator)
           tasks == CounterfactualTasks(validated_items, 1, available)
       IN /\ counterfactual_tasks' = tasks
          /\ evaluator' = IF asked /\ available
                          THEN Construct(Construct(evaluator, "llm"),
                                         "counterfactual_generator")
                          ELSE evaluator
          /\ built' = IF asked /\ available
                      THEN CountBuilt(CountBuilt(built, evaluator, "llm"),
                                      evaluator, "counterfactual_generator")
                      ELSE built
          /\ uses' = IF asked /\ available
                     THEN Use(uses, evaluator, "counterfactual_generator", WorkerRequest)
                     ELSE uses
          /\ pc' = IF Len(tasks) > 0 THEN "gather" ELSE "assemble"
    /\ UNCHANGED <<log, lifecycle, http, parent>>
    /\ counterfactual_results' = [i \in 1..Len(validated_items) |-> None]
    /\ UNCHANGED <<stdin, HAS_LLM_SUPPORT, validated_items, toxicity_results,
                   category_groups, group_pos, stereotype_results, ret, exc, calls,
                   stdout, exitcode>>

\* the item-scoped error marker {"error": error_msg}
ErrorMarker(msg) == << <<"error", TextVal(Truncate(msg, 200))>> >>

\* lines 437-471, _evaluate_counterfactual_single: what the task returns
CounterfactualSingle(outcome, task) ==
    CASE outcome = "generate_raises" -> ErrorMarker("generation failed")
      [] outcome = "compare_raises" -> ErrorMarker("comparison failed")
      [] outcome = "full" ->
             Get(CounterfactualEvaluate(task.langfair_category), "metrics", <<>>)

\* lines 437-471: one task of asyncio.gather runs to its return
CounterfactualTask ==
    /\ pc = "gather"
    /\ \E k \in 1..Len(counterfactual_tasks) :
          /\ ~counterfactual_tasks[k].done
          /\ \E outcome \in CounterfactualOutcomes :
                /\ counterfactual_tasks' =
                       [counterfactual_tasks EXCEPT
                           ![k].done = TRUE,
                           ![k].result = CounterfactualSingle(outcome, counterfactual_tasks[k])]
                /\ calls' = [calls EXCEPT
                       !.generate = Append(@, counterfactual_tasks[k].index),
                       !.compare = IF outcome = "generate_raises" THEN @
                                   ELSE Append(@, counterfactual_tasks[k].index)]
                /\ evaluator' = IF outcome = "generate_raises" THEN evaluator
                                ELSE Construct(evaluator, "counterfactual_metrics")
                /\ built' = IF outcome = "generate_raises" THEN built
                            ELSE CountBuilt(built, evaluator, "counterfactual_metrics")
                /\ uses' =
                       LET generated == Use(uses, evaluator, "counterfactual_generator",
                                            WorkerRequest)
                       IN IF outcome = "generate_raises" THEN generated
                          ELSE Use(generated, evaluator, "counterfactual_metrics",
                                   WorkerRequest)
                /\ log' = Logged(log, outcome # "full", "ERROR",
                                 "Counterfactual evaluation failed for item "
                                     \o ToString(counterfactual_tasks[k].index))
    /\ UNCHANGED <<lifecycle, http, parent>>
    /\ UNCHANGED <<stdin, HAS_LLM_SUPPORT, pc, validated_items, toxicity_results,
                   category_groups, group_pos, stereotype_results,
                   counterfactual_results, ret, exc, stdout, exitcode>>

\* (variant of StoreResults: a result is stored at the position of its task
\* in the list of tasks)
RECURSIVE StoreResultsByTaskPosition(_, _, _)
StoreResultsByTaskPosition(results, tasks, k) ==
    IF k > Len(tasks) THEN results
    ELSE StoreResultsByTaskPosition([results EXCEPT ![k] = DictVal(tasks[k].result)],
                                    tasks, k + 1)

\* lines 414-417: the results of the tasks from the k-th on are stored
RECURSIVE StoreResults(_, _, _)
StoreResults(results, tasks, k) ==
    IF k > Len(tasks) THEN results
    ELSE StoreResults([results EXCEPT ![tasks[k].index + 1] = DictVal(tasks[k].result)],
                      tasks, k + 1)

\* (variant of BatchGather: the join returns as soon as one task has failed)
BatchGatherFirstFailure ==
    /\ pc = "gather"
    /\ \/ \A k \in 1..Len(counterfactual_tasks) : counterfactual_tasks[k].done
       \/ \E k \in 1..Len(counterfactual_tasks) :
              /\ counterfactual_tasks[k].done
              /\ HasKey(counterfactual_tasks[k].result, "error")
    /\ counterfactual_results' =
           StoreResults(counterfactual_results, counterfactual_tasks, 1)
    /\ pc' = "assemble"
    /\ UNCHANGED <<stdin, HAS_LLM_SUPPORT, evaluator, built, validated_items,
                   toxicity_results, category_groups, group_pos, stereotype_results,
                   counterfactual_tasks, ret, exc, calls, stdout, exitcode>>
    /\ UNCHANGED <<log, uses, lifecycle, http, parent>>

\* lines 412-417: asyncio.gather has returned
BatchGather ==
    /\ pc = "gather"
    /\ \A k \in 1..Len(counterfactual_tasks) : counterfactual_tasks[k].done
    /\ counterfactual_results' =
           StoreResults(counterfactual_results, counterfactual_tasks, 1)
    /\ pc' = "assemble"
    /\ UNCHANGED <<stdin, HAS_LLM_SUPPORT, evaluator, built, validated_items,
                   toxicity_results, category_groups, group_pos, stereotype_results,
                   counterfactual_tasks, ret, exc, calls, stdout, exitcode>>
    /\ UNCHANGED <<log, uses, lifecycle, http, parent>>

\* `x if counterfactual_metrics else {}`: a dict that is not empty is true
Truthy(x) == x.t = "dict" /\ Len(x.d) > 0

\* line 430: the counterfactual field of one result
CounterfactualField(counterfactual_metrics) ==
    IF Truthy(counterfactual_metrics)
    THEN _format_counterfactual_metrics(counterfactual_metrics.d)
    ELSE [raised |-> FALSE, value |-> <<>>]

\* lines 421-432: the result of the item at position i
BatchResult(items, toxicity, stereotype, counterfactual, i) ==
    [success |-> TRUE,
     metrics |->
         [toxicity |-> _format_toxicity_metrics(toxicity[i]),
          stereotype |-> _format_stereotype_metrics(stereotype[i].metrics,
                                                    items[i].category.v),
          counterfactual |-> CounterfactualField(counterfactual[i]).value]]

\* (variant of BatchDocument: the list under the key of the single-item path)
BatchDocumentSingular(results) == [success |-> TRUE, result |-> results]

\* worker.py line 20: what run_evaluation returns for a batch payload
BatchDocument(results) == [success |-> TRUE, results |-> results]

\* lines 419-435: the results are assembled in input order; an exception of
\* a formatter leaves evaluate_batch
BatchAssemble ==
    /\ pc = "assemble"
    /\ IF \E i \in 1..Len(validated_items) :
              CounterfactualField(counterfactual_results[i]).raised
       THEN /\ exc' = Exception("AttributeError", "'str' object has no attribute 'get'")
            /\ ret' = ret
       ELSE /\ ret' = << BatchDocument([i \in 1..Len(validated_items) |->
                              BatchResult(validated_items, toxicity_results,
                                          stereotype_results, counterfactual_results, i)]) >>
            /\ exc' = exc
    /\ pc' = "finally"
    /\ UNCHANGED <<stdin, HAS_LLM_SUPPORT, evaluator, built, batch_vars, calls,
                   stdout, exitcode>>
    /\ UNCHANGED <<log, uses, lifecycle, http, parent>>

(***************************************************************************)
(* evaluator.py: evaluate_response, as run_evaluation calls it             *)
(* (include_counterfactual keeps its default, False)                       *)
(***************************************************************************)
\* lines 103-118: toxicity_metrics
ResponseToxicity(outcome, question_text, user_response) ==
    IF outcome = "raise" THEN DefaultToxicity
    ELSE Get(ToxicityEvaluate(outcome, <<question_text>>, <<user_response>>),
             "metrics", <<>>)

\* lines 129-143: stereotype_metrics
ResponseStereotype(outcome, user_response, langfair_category) ==
    IF outcome = "raise" THEN DefaultStereotype(langfair_category)
    ELSE Get(StereotypeEvaluate(outcome, <<user_response>>, langfair_category),
             "metrics", <<>>)

\* lines 174-181: the result
ResponseResult(toxicity_metrics, stereotype_metrics, category) ==
    [success |-> TRUE,
     metrics |->
         [toxicity |-> _format_toxicity_metrics(toxicity_metrics),
          stereotype |-> _format_stereotype_metrics(stereotype_metrics, category),
          counterfactual |-> <<>>]]

\* worker.py line 27: what run_evaluation returns for any other payload
ResponseDocument(result) == [success |-> TRUE, result |-> result]

EvaluateResponse ==
    /\ pc = "evaluate_response"
    /\ LET payload == stdin.items[1]
           question_text == StrOrEmpty(payload.question_text)
           user_response == StrOrEmpty(payload.user_response)
           category == payload.category
       IN IF Strip(user_response) = ""
          THEN /\ exc' = Exception("ValueError", "user_response cannot be empty")
               /\ UNCHANGED <<evaluator, built, ret, calls, log, uses>>
          ELSE \E toxicity \in ToxicityOutcomes :
                 LET toxicity_call ==
                         [prompts |-> <<question_text>>, responses |-> <<user_response>>,
                          outcome |-> toxicity]
                     constructed == Construct(evaluator, "toxicity_metrics")
                     counted == CountBuilt(built, evaluator, "toxicity_metrics")
                     used == Use(uses, evaluator, "toxicity_metrics", WorkerRequest)
                     logged == Logged(log, toxicity = "raise", "ERROR",
                                      "Error evaluating toxicity")
                 IN IF ~IsStr(category)
                    THEN /\ exc' = Exception("AttributeError",
                                        "'NoneType' object has no attribute 'lower'")
                         /\ calls' = [calls EXCEPT !.toxicity = Append(@, toxicity_call)]
                         /\ evaluator' = constructed
                         /\ built' = counted
                         /\ uses' = used
                         /\ log' = logged
                         /\ ret' = ret
                    ELSE \E stereotype \in StereotypeOutcomes :
                           LET langfair_category == LangfairCategory(category.v)
                           IN /\ ret' = << ResponseDocument(ResponseResult(
                                                ResponseToxicity(toxicity, question_text,
                                                                 user_response),
                                                ResponseStereotype(stereotype, user_response,
                                                                   langfair_category),
                                                category.v)) >>
                              /\ calls' = [calls EXCEPT
                                     !.toxicity = Append(@, toxicity_call),
                                     !.stereotype = Append(@,
                                         [responses |-> <<user_response>>,
                                          category |-> langfair_category,
                                          outcome |-> stereotype])]
                              /\ evaluator' = Construct(constructed, "stereotype_metrics")
                              /\ built' = CountBuilt(counted, evaluator,
                                                     "stereotype_metrics")
                              /\ uses' = Use(used, evaluator, "stereotype_metrics",
                                             WorkerRequest)
                              /\ log' = Logged(logged, stereotype = "raise", "ERROR",
                                               "Error evaluating stereotypes")
                              /\ exc' = exc
    /\ pc' = "finally"
    /\ UNCHANGED <<stdin, HAS_LLM_SUPPORT, batch_vars, stdout, exitcode>>
    /\ UNCHANGED <<lifecycle, http, parent>>

(***************************************************************************)
(* worker.py: the end of run_evaluation and of main                        *)
(***************************************************************************)
\* (variant of cleanup: the handle of the LLM is left set)
cleanupLlmKept(ev) == [NoHandles EXCEPT !.llm = ev.llm]

\* evaluator.py lines 473-489, cleanup: every handle is unset
cleanup(ev) == NoHandles

\* run_evaluation, finally: evaluator.cleanup()
RunFinally ==
    /\ pc = "finally"
    /\ evaluator' = cleanup(evaluator)
    /\ pc' = "print"
    /\ lifecycle' = [lifecycle EXCEPT !.cleaned = @ + 1]
    /\ UNCHANGED <<stdin, HAS_LLM_SUPPORT, built, batch_vars, ret, exc, calls,
                   stdout, exitcode>>
    /\ UNCHANGED <<log, uses, http, parent>>

\* (variant of MainOutput: the process exits with 0 on every path)
MainOutputExitZero(returned, raised) ==
    IF raised = NoException
    THEN [document |-> returned[1], code |-> 0]
    ELSE [document |-> [success |-> FALSE, error |-> Truncate(raised.msg, 500)],
          code |-> 0]

\* the document main prints and the code it exits with: lines 36-39 when
\* run_evaluation returned, lines 47-53 when it raised
MainOutput(returned, raised) ==
    IF raised = NoException
    THEN [document |-> returned[1], code |-> 0]
    ELSE [document |-> [success |-> FALSE, error |-> Truncate(raised.msg, 500)],
          code |-> 1]

MainPrint ==
    /\ pc = "print"
    /\ stdout' = Append(stdout, MainOutput(ret, exc).document)
    /\ exitcode' = MainOutput(ret, exc).code
    /\ pc' = "exited"
    /\ UNCHANGED <<stdin, HAS_LLM_SUPPORT, evaluator, built, batch_vars, ret, exc, calls>>
    /\ UNCHANGED <<log, uses, lifecycle, http, parent>>

Next ==
    \/ MainRead
    \/ RunEvaluation
    \/ BatchValidate
    \/ BatchToxicity
    \/ BatchGroup
    \/ BatchStereotype
    \/ BatchDispatch
    \/ CounterfactualTask
    \/ BatchGather
    \/ BatchAssemble
    \/ EvaluateResponse
    \/ RunFinally
    \/ MainPrint

Spec == Init /\ [][Next]_vars

(***************************************************************************)
(* main.py: the HTTP server, one process serving a sequence of requests    *)
(***************************************************************************)
\* the bodies of POST /evaluate that pass the EvaluateRequest schema
\* (category, question_text and user_response are str)
ServerRequests ==
    { Item(JStr("p?"), JStr("fine"), JStr("gender"), FALSE),
      Item(JStr("q?"), JStr("rude"), JStr("Race"), TRUE),
      Item(JStr("p?"), JStr("fine"), JStr("nationality"), FALSE),
      Item(JStr("p?"), JStr(" \t"), JStr("gender"), FALSE) }

\* no document on standard input: the server is not fed through it
NoStdin == [kind |-> "none", type |-> "", items |-> <<>>]

\* the module has been imported: the global evaluator is None
ServerInit ==
    /\ stdin = NoStdin
    /\ HAS_LLM_SUPPORT \in LlmSupportBuilds
    /\ pc = "listen"
    /\ evaluator = NoHandles
    /\ built = NoHandles
    /\ validated_items = <<>>
    /\ toxicity_results = <<>>
    /\ category_groups = <<>>
    /\ group_pos = 0
    /\ stereotype_results = <<>>
    /\ counterfactual_tasks = <<>>
    /\ counterfactual_results = <<>>
    /\ ret = <<>>
    /\ exc = NoException
    /\ calls = NoCalls
    /\ stdout = <<>>
    /\ exitcode = -1
    /\ log = <<>>
    /\ uses = {}
    /\ lifecycle = NoLifecycle
    /\ http = NoHttp
    /\ parent = NoParent

\* a request arrives at POST /evaluate
ServerReceive ==
    /\ pc = "listen"
    /\ Len(http.responses) < MaxRequests
    /\ \E request \in ServerRequests : http' = [http EXCEPT !.request = <<request>>]
    /\ pc' = "handle"
    /\ UNCHANGED <<stdin, HAS_LLM_SUPPORT, evaluator, built, batch_vars, ret, exc, calls,
                   stdout, exitcode, log, uses, lifecycle, parent>>

\* EvaluateResponse(success=True, metrics=result["metrics"])
HttpOk(metrics) == [status |-> 200, success |-> TRUE, metrics |-> metrics, detail |-> ""]
\* HTTPException(status_code, detail)
HttpError(status, detail) ==
    [status |-> status, success |-> FALSE, metrics |-> <<>>, detail |-> detail]

\* evaluator.py lines 145-172: counterfactual_metrics of evaluate_response;
\* outcome "none" when the branch is not taken
ResponseCounterfactual(outcome, langfair_category) ==
    IF outcome = "none" THEN <<>>
    ELSE CounterfactualSingle(outcome, [langfair_category |-> langfair_category])

\* evaluator.py line 179: the counterfactual field of the result
ResponseCounterfactualField(counterfactual_metrics) ==
    IF Len(counterfactual_metrics) > 0
    THEN _format_counterfactual_metrics(counterfactual_metrics)
    ELSE [raised |-> FALSE, value |-> <<>>]

\* evaluator.py line 110: evaluate_response reads the 'metrics' of the
\* scorer's answer and nothing else, so the answers that differ in their
\* per-item data alone are one answer to it
ResponseToxicityOutcomes ==
    {outcome \in ToxicityOutcomes : outcome \notin {"per_item", "numbers", "misaligned"}}

\* the capabilities evaluate_response gets from its getters, in order
CapabilitiesUsed(generator, outcome) ==
    <<"toxicity_metrics", "stereotype_metrics">>
        \o (IF generator THEN <<"counterfactual_generator">> ELSE <<>>)
        \o (IF outcome \in {"compare_raises", "full"}
            THEN <<"counterfactual_metrics">> ELSE <<>>)

\* the handles, the construction counts and the uses after the getters of
\* the capabilities hs, from the k-th on, have been called in request r
RECURSIVE GetAll(_, _, _, _)
GetAll(state, hs, k, r) ==
    IF k > Len(hs) THEN state
    ELSE LET h == hs[k]
             generator == h = "counterfactual_generator"
         IN GetAll([evaluator |->
                        Construct(IF generator THEN Construct(state.evaluator, "llm")
                                  ELSE state.evaluator, h),
                    built |->
                        CountBuilt(IF generator
                                   THEN CountBuilt(state.built, state.evaluator, "llm")
                                   ELSE state.built, state.evaluator, h),
                    uses |-> Use(state.uses, state.evaluator, h, r)],
                   hs, k + 1, r)

\* main.py lines 129-186, the handler of POST /evaluate: get_evaluator,
\* evaluate_response with the request's fields, and the response
ServerEvaluate ==
    /\ pc = "handle"
    /\ LET request == http.request[1]
           r == Len(http.responses) + 1
           question_text == request.question_text.v
           user_response == request.user_response.v
           category == request.category.v
           langfair_category == LangfairCategory(category)
           wanted == request.include_counterfactual
                         /\ Lower(category) \in {"gender", "race"}
           generator == wanted /\ GeneratorAvailable(evaluator)
           initialized == Logged(log, lifecycle.constructed = 0, "INFO",
                                 "LangFair evaluator initialized successfully")
       IN IF Strip(user_response) = ""
          THEN /\ http' = [request |-> <<>>,
                           responses |-> Append(http.responses,
                               HttpError(400,
                                   "Validation error: user_response cannot be empty"))]
               /\ log' = Logged(initialized, TRUE, "WARNING", "Validation error")
               /\ UNCHANGED <<evaluator, built, uses, calls>>
          ELSE \E toxicity \in ResponseToxicityOutcomes,
                  stereotype \in StereotypeOutcomes,
                  outcome \in IF generator THEN CounterfactualOutcomes ELSE {"none"} :
                 LET got == GetAll([evaluator |-> evaluator, built |-> built,
                                    uses |-> uses],
                                   CapabilitiesUsed(generator, outcome), 1, r)
                     field == ResponseCounterfactualField(
                                  ResponseCounterfactual(outcome, langfair_category))
                     result == ResponseResult(
                                   ResponseToxicity(toxicity, question_text, user_response),
                                   ResponseStereotype(stereotype, user_response,
                                                      langfair_category),
                                   category)
                 IN /\ evaluator' = got.evaluator
                    /\ built' = got.built
                    /\ uses' = got.uses
                    /\ calls' = [calls EXCEPT
                           !.toxicity = Append(@, [prompts |-> <<question_text>>,
                                                   responses |-> <<user_response>>,
                                                   outcome |-> toxicity]),
                           !.stereotype = Append(@, [responses |-> <<user_response>>,
                                                     category |-> langfair_category,
                                                     outcome |-> stereotype]),
                           !.generate = IF generator THEN Append(@, r - 1) ELSE @,
                           !.compare = IF outcome \in {"compare_raises", "full"}
                                       THEN Append(@, r - 1) ELSE @]
                    /\ log' = Logged(
                                Logged(
                                  Logged(
                                    Logged(initialized, toxicity = "raise", "ERROR",
                                           "Error evaluating toxicity"),
                                    stereotype = "raise", "ERROR",
                                    "Error evaluating stereotypes"),
                                  outcome \in {"generate_raises", "compare_raises"},
                                  "ERROR", "Counterfactual evaluation failed"),
                                field.raised, "ERROR", "Error during evaluation")
                    /\ http' = [request |-> <<>>,
                                responses |-> Append(http.responses,
                                    IF field.raised
                                    THEN HttpError(500,
                                             "Evaluation failed: 'str' object has no "
                                                 \o "attribute 'get' (Type: AttributeError)")
                                    ELSE HttpOk([result.metrics EXCEPT
                                                    !.counterfactual = field.value]))]
    /\ lifecycle' = IF lifecycle.constructed = 0
                    THEN [lifecycle EXCEPT !.constructed = 1] ELSE lifecycle
    /\ pc' = "listen"
    /\ UNCHANGED <<stdin, HAS_LLM_SUPPORT, batch_vars, ret, exc, stdout, exitcode, parent>>

ServerNext ==
    \/ ServerReceive
    \/ ServerEvaluate

ServerSpec == ServerInit /\ [][ServerNext]_vars

(***************************************************************************)
(* The process-isolation boundary: the parent that spawns one worker per   *)
(* request, waits for its document and enforces the hard timeout.          *)
(***************************************************************************)
\* the requests the parent is followed on: the documents of at most one item
ParentStdin == {s \in Stdin : Len(s.items) <= 1}

\* a request has arrived at the parent, no worker has been spawned yet
ParentInit ==
    /\ stdin \in ParentStdin
    /\ HAS_LLM_SUPPORT \in LlmSupportBuilds
    /\ pc = "unspawned"
    /\ evaluator = NoHandles
    /\ built = NoHandles
    /\ validated_items = <<>>
    /\ toxicity_results = <<>>
    /\ category_groups = <<>>
    /\ group_pos = 0
    /\ stereotype_results = <<>>
    /\ counterfactual_tasks = <<>>
    /\ counterfactual_results = <<>>
    /\ ret = <<>>
    /\ exc = NoException
    /\ calls = NoCalls
    /\ stdout = <<>>
    /\ exitcode = -1
    /\ log = <<>>
    /\ uses = {}
    /\ lifecycle = NoLifecycle
    /\ http = NoHttp
    /\ parent = [state |-> "idle", response |-> "", killed |-> ""]

worker_vars ==
    <<stdin, HAS_LLM_SUPPORT, evaluator, built, batch_vars, ret, exc, calls, stdout,
      exitcode, log, uses, lifecycle, http>>

\* the parent spawns the worker, hands it the request and starts the timer
ParentSpawn ==
    /\ parent.state = "idle"
    /\ parent' = [parent EXCEPT !.state = "waiting"]
    /\ pc' = "main"
    /\ UNCHANGED worker_vars

\* the call of a scorer that the worker is about to make never returns
ScorerHangs ==
    /\ pc \in {"toxicity", "stereotype", "evaluate_response"}
    /\ pc' = "hung"
    /\ UNCHANGED worker_vars
    /\ UNCHANGED parent

\* (variant of ParentTimeout: the error is surfaced and the child is left
\* running)
ParentTimeoutChildLeft ==
    /\ parent.state = "waiting"
    /\ pc # "exited"
    /\ parent' = [state |-> "responded", response |-> "deadline_exceeded", killed |-> ""]
    /\ UNCHANGED pc
    /\ UNCHANGED worker_vars

\* the hard timeout expires while the worker is still running: the child is
\* killed and the parent surfaces a deadline-exceeded error
ParentTimeout ==
    /\ parent.state = "waiting"
    /\ pc # "exited"
    /\ parent' = [state |-> "responded", response |-> "deadline_exceeded", killed |-> pc]
    /\ pc' = "killed"
    /\ UNCHANGED worker_vars

\* the worker has exited: the parent parses its output document and answers
\* with the results or with the structured error
ParentCollect ==
    /\ parent.state = "waiting"
    /\ pc = "exited"
    /\ parent' = [state |-> "responded",
                  response |-> IF exitcode = 0 /\ stdout[1].success
                               THEN "results" ELSE "worker_error",
                  killed |-> ""]
    /\ UNCHANGED pc
    /\ UNCHANGED worker_vars

ParentNext ==
    \/ ParentSpawn
    \/ Next
    \/ ScorerHangs
    \/ ParentTimeout
    \/ ParentCollect

\* the timer of the parent fires and the parent handles the exit of its
\* child; the worker itself is not assumed to make progress
ParentSpec ==
    ParentInit /\ [][ParentNext]_vars /\ WF_vars(ParentTimeout) /\ WF_vars(ParentCollect)

(***************************************************************************)
(* Vocabulary of the properties                                            *)
(***************************************************************************)
IsBatch == stdin.kind = "object" /\ stdin.type = "batch"

\* evaluate_batch has returned its result list
BatchReturned == IsBatch /\ Len(ret) = 1

\* the worker is past the validation of the batch
PastValidation == pc \notin {"main", "run_evaluation", "evaluate_batch"}

\* the run has left evaluate_batch / evaluate_response
Finished == pc \in {"finally", "print", "exited"}

\* a str made of whitespace only (the empty str included)
IsBlank(x) == IsStr(x) /\ \A k \in 1..Len(x.v) : CharAt(x.v, k) \in WHITESPACE

\* the fairness dimension a label stands for, by the table of the category
\* resolver: any casing of the five labels, everything else scored as gender
ResolvedLabel(label) ==
    CASE label \in {"race", "Race", "RACE", "ethnicity", "Ethnicity"} -> "race"
      [] label \in {"religion", "Religion"} -> "religion"
      [] label \in {"age", "Age"} -> "age"
      [] OTHER -> "gender"

InputCategory(i) == ResolvedLabel(stdin.items[i].category.v)

\* the input positions that belong to the group of category c
GroupPositions(c) == {j \in 1..Len(stdin.items) : InputCategory(j) = c}

\* the call of the stereotype scorer for category c
StereotypeCall(c) ==
    calls.stereotype[CHOOSE k \in 1..Len(calls.stereotype) :
                         calls.stereotype[k].category = c]

\* the ToxicityScore / StereotypeScore a raw metrics dictionary stands for
ToxicityScore(tf, emt, tp) ==
    [toxic_fraction |-> tf, expected_max_toxicity |-> emt, toxicity_probability |-> tp]
StereotypeScore(sa, cb, sf) ==
    [stereotype_association |-> sa, cooccurrence_bias |-> cb, stereotype_fraction |-> sf]

(***************************************************************************)
(* C1                                                                      *)
(***************************************************************************)
\* the toxicity entry computed for the prompt and response of input item i
ToxicityComputedFor(i) ==
    LET call == calls.toxicity[1]
        q == StrOrEmpty(stdin.items[i].question_text)
        r == StrOrEmpty(stdin.items[i].user_response)
    IN CASE call.outcome = "raise" -> ToxicityScore(0, 0, 0)
         [] call.outcome \in {"per_item", "numbers"} ->
                ToxicityScore(0, PairToxicity(q, r), 0)
         [] call.outcome \in {"aggregate", "misaligned"} ->
                ToxicityScore(5, MaxToxicity(call.prompts, call.responses, 1), 4)
         [] call.outcome = "partial" -> ToxicityScore(5, 0, 0)
         [] call.outcome = "out_of_range" -> ToxicityScore(12, -3, 4)

\* the stereotype entry computed for the category group of input item i
StereotypeComputedFor(i) ==
    LET call == StereotypeCall(InputCategory(i))
    IN _format_stereotype_metrics(
           IF call.outcome = "raise" THEN DefaultStereotype(call.category)
           ELSE Get(StereotypeEvaluate(call.outcome, call.responses, call.category),
                    "metrics", <<>>),
           call.category)

\* C1: when evaluate_batch returns, the result list is as long as the input,
\* every position holds a result, and result[i] carries the toxicity entry
\* computed for item i's prompt/response and the stereotype entry computed
\* for the category group item i belongs to.
C1_IndexPreservation ==
    BatchReturned =>
        LET items == stdin.items
            results == ret[1].results
        IN /\ Len(results) = Len(items)
           /\ \A i \in 1..Len(items) :
                 /\ results[i].success
                 /\ results[i].metrics.toxicity = ToxicityComputedFor(i)
                 /\ \E k \in 1..Len(calls.stereotype) :
                       calls.stereotype[k].category = InputCategory(i)
                 /\ results[i].metrics.stereotype = StereotypeComputedFor(i)

\* a returned batch of five items in four groups, the first and the last item
\* in the same group, scored per item
C1_Witness ==
    /\ BatchReturned
    /\ Len(stdin.items) = 5
    /\ InputCategory(1) = InputCategory(5)
    /\ Len(calls.stereotype) = 4
    /\ calls.toxicity[1].outcome = "per_item"

(***************************************************************************)
(* C2                                                                      *)
(***************************************************************************)
\* a counterfactual task of the batch has ended with the error marker
TaskFailed(k) ==
    /\ counterfactual_tasks[k].done
    /\ HasKey(counterfactual_tasks[k].result, "error")

C3_BlankResponseRejectedFirst ==
    (IsBatch /\ \E i \in 1..Len(stdin.items) : IsBlank(stdin.items[i].user_response)) =>
        /\ calls = NoCalls
        /\ built = NoHandles
        /\ Len(ret) = 0
        /\ Finished => exc.type = "ValueError"

\* a two-item batch whose second response alone is blank has been rejected
C3_Witness ==
    /\ IsBatch
    /\ pc = "exited"
    /\ Len(stdin.items) = 2
    /\ ~IsBlank(stdin.items[1].user_response)
    /\ IsStr(stdin.items[1].user_response)
    /\ IsBlank(stdin.items[2].user_response)
    /\ exc.type = "ValueError"
    /\ stdout[1].success = FALSE

(***************************************************************************)
(* C4                                                                      *)
(***************************************************************************)
\* C4: an error leaves evaluate_batch only before the first scorer
\* invocation.
C4_ErrorsOnlyBeforeScoring ==
    (IsBatch /\ exc # NoException) => calls = NoCalls

(***************************************************************************)
(* C5                                                                      *)
(***************************************************************************)
\* C5: when the toxicity scorer raised, every result of the returned batch
\* has the zero toxicity score and success=true, and the stereotype scorer
\* has been called for the category group of every item.
C5_ToxicityFailureDefaults ==
    (BatchReturned /\ calls.toxicity[1].outcome = "raise") =>
        \A i \in 1..Len(stdin.items) :
            /\ ret[1].results[i].metrics.toxicity = ToxicityScore(0, 0, 0)
            /\ ret[1].results[i].success
            /\ \E k \in 1..Len(calls.stereotype) :
                  calls.stereotype[k].category = InputCategory(i)

\* a returned two-group batch whose toxicity call raised
C5_Witness ==
    /\ BatchReturned
    /\ calls.toxicity[1].outcome = "raise"
    /\ Len(calls.stereotype) = 2
    /\ pc = "exited"
    /\ stdout[1].success

(***************************************************************************)
(* C6                                                                      *)
(***************************************************************************)
\* the StereotypeScore an item of category c gets from a scorer call that
\* returned, given the size of its group
StereotypeReturnedFor(outcome, c, size) ==
    IF outcome = "full"
    THEN StereotypeScore(CategoryBase(c), CategoryBase(c) + 1, CategoryBase(c) + size)
    ELSE StereotypeScore(0, CategoryBase(c) + 1, 0)

\* C6: in a returned batch, exactly the items of the groups whose stereotype
\* call raised have the zero stereotype score, and every item of a group
\* whose call returned has the score returned for its own group.
C6_StereotypeFailureIsolation ==
    BatchReturned =>
        \A i \in 1..Len(stdin.items) :
            LET c == InputCategory(i)
                call == StereotypeCall(c)
                score == ret[1].results[i].metrics.stereotype
            IN /\ (call.outcome = "raise") <=> (score = StereotypeScore(0, 0, 0))
               /\ call.outcome # "raise" =>
                     score = StereotypeReturnedFor(call.outcome, c,
                                                   Cardinality(GroupPositions(c)))

\* a returned batch where the call of the first group, of two items, raised
\* and the call of the second group returned the full metrics
C6_Witness ==
    /\ BatchReturned
    /\ Len(calls.stereotype) >= 2
    /\ calls.stereotype[1].outcome = "raise"
    /\ calls.stereotype[2].outcome = "full"
    /\ Cardinality(GroupPositions(calls.stereotype[1].category)) = 2

(***************************************************************************)
(* C7                                                                      *)
(***************************************************************************)
\* C7: within one evaluate_batch call the stereotype scorer is never called
\* twice for the same category, is called for categories of the batch only,
\* at most 4 times, and, once the stereotype stage is over, has been called
\* for every category present in the batch.
C7_OneStereotypeCallPerCategory ==
    IsBatch =>
        /\ \A j, k \in 1..Len(calls.stereotype) :
              calls.stereotype[j].category = calls.stereotype[k].category => j = k
        /\ \A k \in 1..Len(calls.stereotype) :
              GroupPositions(calls.stereotype[k].category) # {}
        /\ Len(calls.stereotype) <= 4
        /\ pc \in {"counterfactual", "gather", "assemble"} \/ BatchReturned =>
              \A i \in 1..Len(stdin.items) :
                 \E k \in 1..Len(calls.stereotype) :
                    calls.stereotype[k].category = InputCategory(i)

\* a finished batch whose two items spell the same category differently
\* ("Race" and "ethnicity") and got one call
C7_Witness ==
    /\ BatchReturned
    /\ Len(stdin.items) = 2
    /\ stdin.items[1].category # stdin.items[2].category
    /\ InputCategory(1) = "race"
    /\ InputCategory(2) = "race"
    /\ Len(calls.stereotype) = 1

(***************************************************************************)
(* C8                                                                      *)
(***************************************************************************)
AllResponsesFilled ==
    \A i \in 1..Len(stdin.items) :
        IsStr(stdin.items[i].user_response) /\ ~IsBlank(stdin.items[i].user_response)

\* the batch has been rejected as out of bounds
RejectedForSize ==
    exc.msg \in {"Batch evaluation supports maximum 5 items",
                 "At least one item is required for batch evaluation"}

\* the batch has passed validation
Accepted == Len(validated_items) = Len(stdin.items) /\ exc.type # "ValueError"

\* C8 as stated: every batch of 1 to 20 items whose responses are non-empty
\* is accepted, and only batches of 0 or more than 20 items are rejected as
\* out of bounds.
C8_AcceptsUpTo20 ==
    (IsBatch /\ PastValidation) =>
        /\ (AllResponsesFilled /\ Len(stdin.items) \in 1..20) => Accepted
        /\ RejectedForSize => (Len(stdin.items) = 0 \/ Len(stdin.items) > 20)

\* C8 as amended: every batch of 1 to 5 items whose responses are non-empty
\* is accepted, and exactly the batches of 0 or more than 5 items are
\* rejected as out of bounds.
C8_AcceptsUpTo5 ==
    (IsBatch /\ PastValidation) =>
        /\ (AllResponsesFilled /\ Len(stdin.items) \in 1..5) => Accepted
        /\ RejectedForSize <=> (Len(stdin.items) = 0 \/ Len(stdin.items) > 5)

\* a batch of five items has been accepted and evaluated
C8_Witness ==
    /\ BatchReturned
    /\ Len(stdin.items) = 5
    /\ Accepted
    /\ pc = "exited"

(***************************************************************************)
(* C9                                                                      *)
(***************************************************************************)
\* C9: whatever standard input holds, nothing is written before the process
\* exits, and when it has exited exactly one document has been written and
\* the exit code is 0 if the document has success=true and 1 otherwise.
C9_OneDocumentAndExitCode ==
    /\ pc # "exited" => (stdout = <<>> /\ exitcode = -1)
    /\ pc = "exited" =>
          /\ Len(stdout) = 1
          /\ exitcode \in {0, 1}
          /\ (exitcode = 0) <=> stdout[1].success

\* the worker has exited with 1 on JSON that is not an object
C9_Witness ==
    /\ pc = "exited"
    /\ stdin.kind = "nonobject"
    /\ Len(stdout) = 1
    /\ ~stdout[1].success
    /\ exitcode = 1

(***************************************************************************)
(* C10                                                                     *)
(***************************************************************************)
IsEvaluationResult(r) ==
    /\ DOMAIN r = {"success", "metrics"}
    /\ r.success
    /\ DOMAIN r.metrics = {"toxicity", "stereotype", "counterfactual"}
    /\ DOMAIN r.metrics.toxicity =
           {"toxic_fraction", "expected_max_toxicity", "toxicity_probability"}
    /\ DOMAIN r.metrics.stereotype =
           {"stereotype_association", "cooccurrence_bias", "stereotype_fraction"}

IsResultsDocument(doc) ==
    /\ DOMAIN doc = {"success", "results"}
    /\ doc.success
    /\ Len(doc.results) = Len(stdin.items)
    /\ \A i \in 1..Len(doc.results) : IsEvaluationResult(doc.results[i])

IsErrorDocument(doc) ==
    /\ DOMAIN doc = {"success", "error"}
    /\ ~doc.success

\* the payload of the round-trip example: one gender item, no counterfactual
IsExamplePayload ==
    /\ IsBatch
    /\ stdin.items = << Item(JStr("p?"), JStr("fine"), JStr("gender"), FALSE) >>

\* C10 as stated: every document written is a success document with one
\* EvaluationResult per input item under 'results', or an error document.
C10_TwoShapes ==
    \A k \in 1..Len(stdout) :
        IsResultsDocument(stdout[k]) \/ IsErrorDocument(stdout[k])

\* C10 as amended: every document written is an error document, or, for a
\* batch payload, a success document with one EvaluationResult per input
\* item under 'results', or, for a payload whose type is not "batch", a
\* success document with a single EvaluationResult under 'result' and no
\* 'results' list; the example payload yields success=true with one entry.
C10_ThreeShapes ==
    /\ \A k \in 1..Len(stdout) :
          \/ IsErrorDocument(stdout[k])
          \/ IsBatch /\ IsResultsDocument(stdout[k])
          \/ /\ ~IsBatch
             /\ DOMAIN stdout[k] = {"success", "result"}
             /\ stdout[k].success
             /\ IsEvaluationResult(stdout[k].result)
    /\ (IsExamplePayload /\ pc = "exited") =>
          (IsResultsDocument(stdout[1]) /\ Len(stdout[1].results) = 1)

\* the example payload has produced its success document
C10_Witness ==
    /\ pc = "exited"
    /\ IsExamplePayload
    /\ stdout[1].success
    /\ Len(stdout[1].results) = 1

(***************************************************************************)
(* C11                                                                     *)
(***************************************************************************)
\* the payload is the single-item one (its type is not "batch")
IsSingle == stdin.kind = "object" /\ stdin.type = "single"

\* the label is one of the five of the table, in any casing and with any
\* surrounding whitespace
Recognized(label) ==
    Lower(Strip(label)) \in {"gender", "race", "ethnicity", "religion", "age"}

\* a single-item payload with a response that is not blank and a str
\* category that is not one of the five labels
SingleUnrecognized ==
    /\ IsSingle
    /\ IsStr(stdin.items[1].user_response)
    /\ ~IsBlank(stdin.items[1].user_response)
    /\ IsStr(stdin.items[1].category)
    /\ ~Recognized(stdin.items[1].category.v)

Grouped == IsBatch /\ pc \in {"stereotype", "counterfactual", "gather", "assemble"}

\* the warnings logged about the label
WarningsAbout(label) ==
    {k \in 1..Len(log) : log[k].level = "WARNING" /\ Contains(label, log[k].msg)}

\* input item i has been put in the group of category c
GroupedUnder(i, c) ==
    \E g \in 1..Len(category_groups) :
        /\ category_groups[g].category = c
        /\ \E k \in 1..Len(category_groups[g].items) :
              category_groups[g].items[k].index = i - 1

\* C12: in batch evaluation an item with an unrecognized category label is
\* scored as gender, and once the batch has been grouped exactly one warning
\* has been emitted for each distinct unrecognized label of the batch.
C12_WarnOncePerLabel ==
    (Grouped \/ BatchReturned) =>
        \A i \in 1..Len(stdin.items) :
            ~Recognized(stdin.items[i].category.v) =>
                /\ GroupedUnder(i, "gender")
                /\ Cardinality(WarningsAbout(stdin.items[i].category.v)) = 1

(***************************************************************************)
(* C13                                                                     *)
(***************************************************************************)
\* the category the resolver is to give: the table entry of the lower-cased
\* and trimmed label
TableEntry(label) == Get(category_mapping, Lower(Strip(label)), "gender")

\* the stereotype scorer has been called with category c and the response of
\* input item i among the responses
ScoredUnder(i, c) ==
    \E k \in 1..Len(calls.stereotype) :
        /\ calls.stereotype[k].category = c
        /\ \E j \in 1..Len(calls.stereotype[k].responses) :
              calls.stereotype[k].responses[j] = stdin.items[i].user_response.v

\* C13: any casing and any surrounding whitespace of gender, race,
\* ethnicity, religion, age resolves to gender, race, race, religion, age,
\* and that category is the one passed to the stereotype scorer: in the
\* grouping of a batch, in the scorer calls of a returned batch, and in the
\* scorer call of a single-item evaluation.
C13_LowerCasedAndTrimmed ==
    \A i \in 1..Len(stdin.items) :
        LET label == stdin.items[i].category
        IN (IsStr(label) /\ Recognized(label.v)) =>
              /\ (Grouped \/ BatchReturned) => GroupedUnder(i, TableEntry(label.v))
              /\ BatchReturned => ScoredUnder(i, TableEntry(label.v))
              /\ (IsSingle /\ Len(ret) = 1) => ScoredUnder(i, TableEntry(label.v))

(***************************************************************************)
(* C14                                                                     *)
(***************************************************************************)
\* input item i opted in to counterfactual evaluation with category gender
\* or race
OptedIn(i) ==
    /\ stdin.items[i].include_counterfactual
    /\ IsStr(stdin.items[i].category)
    /\ Lower(stdin.items[i].category.v) \in {"gender", "race"}

\* the generator capability is missing: the getter returns None
GeneratorMissing == ~GeneratorAvailable(evaluator) /\ built.counterfactual_generator = 0

\* C14: when the generator capability is missing, a returned batch has a
\* result for every item and the counterfactual field of every item that
\* opted in with category gender or race carries the error marker.
C14_MissingGeneratorMarked ==
    (BatchReturned /\ GeneratorMissing) =>
        /\ Len(ret[1].results) = Len(stdin.items)
        /\ \A i \in 1..Len(stdin.items) :
              OptedIn(i) => HasKey(ret[1].results[i].metrics.counterfactual, "error")

(***************************************************************************)
(* C15                                                                     *)
(***************************************************************************)
\* a generation or a comparison call has been made for input item i
CounterfactualCallFor(i) ==
    \/ \E k \in 1..Len(calls.generate) : calls.generate[k] = i - 1
    \/ \E k \in 1..Len(calls.compare) : calls.compare[k] = i - 1

\* C15: for an item of a batch that did not opt in to counterfactual
\* evaluation no generation and no comparison call is ever made, whatever
\* the other items ask for, and in the returned batch its counterfactual
\* field is empty.
C15_NoOptInNoCounterfactual ==
    IsBatch =>
        \A i \in 1..Len(stdin.items) :
            ~stdin.items[i].include_counterfactual =>
                /\ ~CounterfactualCallFor(i)
                /\ \A k \in 1..Len(counterfactual_tasks) :
                      counterfactual_tasks[k].index # i - 1
                /\ BatchReturned => ret[1].results[i].metrics.counterfactual = <<>>

\* a returned batch of two items: the first did not opt in and has an empty
\* field, the second opted in and has its computed counterfactual score
C15_Witness ==
    /\ BatchReturned
    /\ Len(stdin.items) = 2
    /\ ~stdin.items[1].include_counterfactual
    /\ stdin.items[2].include_counterfactual
    /\ calls.generate = <<1>>
    /\ calls.compare = <<1>>
    /\ ret[1].results[1].metrics.counterfactual = <<>>
    /\ ret[1].results[2].metrics.counterfactual # <<>>

(***************************************************************************)
(* C16                                                                     *)
(***************************************************************************)
\* C16: every request is served by a freshly constructed orchestrator, so
\* as many orchestrators have been constructed as requests have been
\* answered, and no capability instance is used while serving a request
\* other than the one in which it was constructed.
C16_FreshOrchestratorPerRequest ==
    /\ pc = "listen" => lifecycle.constructed = Len(http.responses)
    /\ \A u \in uses : u.made = u.request

\* the worker's side of the claim: the evaluator of run_evaluation is
\* constructed in the process that serves the request and nowhere else
C16_WorkerFresh ==
    /\ lifecycle.constructed <= 1
    /\ \A u \in uses : u.made = WorkerRequest /\ u.request = WorkerRequest

(***************************************************************************)
(* C17                                                                     *)
(***************************************************************************)
\* the request has been answered with the deadline error and its worker has
\* been killed
DeadlineSurfaced ==
    /\ parent.state = "responded"
    /\ parent.response = "deadline_exceeded"
    /\ parent.killed # ""
    /\ pc = "killed"

C18_CleanupBeforeOutput ==
    /\ lifecycle.cleaned <= lifecycle.constructed
    /\ (lifecycle.constructed = 1 /\ (pc \in {"print", "exited"} \/ stdout # <<>>)) =>
          /\ lifecycle.cleaned = 1
          /\ evaluator = NoHandles
    /\ lifecycle.cleaned = 1 => evaluator = NoHandles

\* the worker has exited on an exception raised after the toxicity scorer
\* had been constructed, with every handle unset
C18_Witness ==
    /\ pc = "exited"
    /\ exc.type = "AttributeError"
    /\ built.toxicity_metrics = 1
    /\ lifecycle = [constructed |-> 1, cleaned |-> 1]
    /\ evaluator = NoHandles
    /\ ~stdout[1].success

(***************************************************************************)
(* C19                                                                     *)
(***************************************************************************)
\* the capabilities of the evaluator that are constructed lazily
Capabilities ==
    {"toxicity_metrics", "stereotype_metrics", "counterfactual_metrics",
     "counterfactual_generator"}

UsesOf(h) == {u \in uses : u.capability = h}

\* C19: while an evaluator lives, each capability has been constructed at
\* most once; it has been constructed exactly if it has been used; every
\* use of it, in whatever call, is a use of that one instance; and the
\* instance was constructed in the call that used it first.
C19_LazyOnceAndReused ==
    \A h \in Capabilities :
        /\ built[h] <= 1
        /\ (built[h] = 1) <=> (UsesOf(h) # {})
        /\ \A u \in UsesOf(h) :
              /\ u.instance = 1
              /\ u.made <= u.request
              /\ \E first \in UsesOf(h) : first.request = u.made
        /\ evaluator[h] \in {0, built[h]}

\* the second request has been served with the toxicity scorer constructed
\* in the first, the generator too, and the comparator, never used, has not
\* been constructed
C19_Witness ==
    /\ Len(http.responses) = 2
    /\ [capability |-> "toxicity_metrics", instance |-> 1, made |-> 1, request |-> 2]
           \in uses
    /\ [capability |-> "counterfactual_generator", instance |-> 1, made |-> 1,
        request |-> 2] \in uses
    /\ built.counterfactual_metrics = 0
    /\ built.toxicity_metrics = 1

(***************************************************************************)
(* C20                                                                     *)
(***************************************************************************)
\* the batch has passed validation and the toxicity stage is over
ToxicityStageOver == IsBatch /\ validated_items # <<>> /\ pc # "toxicity"

\* the aggregate score of the toxicity call of the batch
AggregateToxicity ==
    ToxicityScore(5, MaxToxicity(calls.toxicity[1].prompts,
                                 calls.toxicity[1].responses, 1), 4)

\* C20: the toxicity scorer is invoked exactly once per batch, with the
\* prompts and the responses of all items in input order. In the returned
\* batch, when the scorer returned per-item data (one entry per item, a dict
\* or a number) item i has the score of the i-th entry, and when it returned
\* aggregate scores only, or per-item data that is not one entry per item,
\* every item has the same aggregate score.
C20_ToxicityOncePerBatch ==
    IsBatch =>
        /\ Len(calls.toxicity) <= 1
        /\ ToxicityStageOver =>
              /\ Len(calls.toxicity) = 1
              /\ calls.toxicity[1].prompts =
                     [i \in 1..Len(stdin.items) |->
                         StrOrEmpty(stdin.items[i].question_text)]
              /\ calls.toxicity[1].responses =
                     [i \in 1..Len(stdin.items) |->
                         StrOrEmpty(stdin.items[i].user_response)]
        /\ BatchReturned =>
              \A i \in 1..Len(stdin.items) :
                 LET score == ret[1].results[i].metrics.toxicity
                     outcome == calls.toxicity[1].outcome
                 IN /\ outcome \in {"per_item", "numbers"} =>
                          score = ToxicityScore(0,
                                      PairToxicity(stdin.items[i].question_text.v,
                                                   stdin.items[i].user_response.v), 0)
                    /\ outcome \in {"aggregate", "misaligned"} =>
                          score = AggregateToxicity
                    /\ outcome \in {"aggregate", "misaligned", "partial"} =>
                          score = ret[1].results[1].metrics.toxicity

\* a returned batch of two items scored per item, with different scores
C20_Witness ==
    /\ BatchReturned
    /\ Len(stdin.items) = 2
    /\ Len(calls.toxicity) = 1
    /\ calls.toxicity[1].outcome = "per_item"
    /\ ret[1].results[1].metrics.toxicity.expected_max_toxicity = 2
    /\ ret[1].results[2].metrics.toxicity.expected_max_toxicity = 9
    /\ AggregateToxicity.expected_max_toxicity = 9

(***************************************************************************)
(* C21                                                                     *)
(***************************************************************************)
\* the join of the counterfactual tasks has returned
Joined ==
    /\ IsBatch
    /\ pc \in {"assemble", "finally", "print", "exited"}
    /\ Len(counterfactual_results) > 0

\* the tasks dispatched for input position i
TasksFor(i) ==
    {k \in 1..Len(counterfactual_tasks) : counterfactual_tasks[k].index = i - 1}

\* the counterfactual slot of position i as the task of that item alone
\* determines it: what the task returned, None when no task was dispatched
OwnSlot(i) ==
    IF TasksFor(i) = {} THEN None
    ELSE DictVal(counterfactual_tasks[CHOOSE k \in TasksFor(i) : TRUE].result)

\* a task runs to its return: only that task changes, and neither the
\* toxicity entries, the stereotype entries nor the counterfactual slots do
TaskStepIsLocal ==
    (pc = "gather" /\ pc' = "gather") =>
        /\ UNCHANGED <<validated_items, toxicity_results, stereotype_results,
                       counterfactual_results>>
        /\ Len(counterfactual_tasks') = Len(counterfactual_tasks)
        /\ \A k \in 1..Len(counterfactual_tasks) :
              counterfactual_tasks'[k].index = counterfactual_tasks[k].index
        /\ Cardinality({k \in 1..Len(counterfactual_tasks) :
                           counterfactual_tasks'[k] # counterfactual_tasks[k]}) <= 1

\* whatever the order in which the tasks completed (calls.generate lists the
\* item indices in that order, and the formula does not read it), the slots
\* and the returned results are those the tasks' own outcomes determine
SlotsOrderFree ==
    Joined =>
        /\ \A i \in 1..Len(validated_items) :
              /\ Cardinality(TasksFor(i)) <= 1
              /\ counterfactual_results[i] = OwnSlot(i)
        /\ \A k \in 1..Len(counterfactual_tasks) :
              counterfactual_tasks[k].index + 1 \in 1..Len(validated_items)
        /\ BatchReturned =>
              \A i \in 1..Len(validated_items) :
                 /\ ret[1].results[i].metrics.counterfactual =
                        CounterfactualField(OwnSlot(i)).value
                 /\ ret[1].results[i].metrics.toxicity = ToxicityComputedFor(i)
                 /\ ret[1].results[i].metrics.stereotype = StereotypeComputedFor(i)

\* C21: the result list of evaluate_batch does not depend on the order in
\* which the counterfactual tasks complete: a step of a task changes that
\* task alone and no toxicity entry, stereotype entry or counterfactual slot;
\* no two tasks have the same item index; after the join every slot holds
\* what the task of its own item returned, and the returned results carry
\* exactly that, next to the toxicity and stereotype entries computed before.
C21_OrderIndependentSlots == []SlotsOrderFree /\ [][TaskStepIsLocal]_vars

\* a returned batch of two items with a task each, the task of the second
\* item having completed before the task of the first
C21_Witness ==
    /\ BatchReturned
    /\ Len(counterfactual_tasks) = 2
    /\ calls.generate = <<1, 0>>
    /\ \A i \in 1..2 : Len(ret[1].results[i].metrics.counterfactual) > 0

(***************************************************************************)
(* C22                                                                     *)
(***************************************************************************)
\* the outcome task k ended with is one of its own: the error marker of a
\* failure, or the metrics of the comparison for its category
OwnOutcome(k) ==
    LET task == counterfactual_tasks[k]
    IN /\ task.done
       /\ \/ HasKey(task.result, "error")
          \/ task.result =
                 Get(CounterfactualEvaluate(task.langfair_category), "metrics", <<>>)

\* the tasks that have run, by item index, in the order of their completion
HasRun(k) ==
    Cardinality({j \in 1..Len(calls.generate) :
                    calls.generate[j] = counterfactual_tasks[k].index}) = 1

AllTasksFinished ==
    (IsBatch /\ pc \in {"assemble", "finally", "print", "exited"}) =>
        \A k \in 1..Len(counterfactual_tasks) : OwnOutcome(k) /\ HasRun(k)

\* a finished task stays finished with the result it has, and a task that
\* has not finished is still there to run, whatever happened to its siblings
NoTaskCancelled ==
    \A k \in 1..Len(counterfactual_tasks) :
        /\ Len(counterfactual_tasks') >= k
        /\ counterfactual_tasks[k].done => counterfactual_tasks'[k] = counterfactual_tasks[k]

\* C22: the join waits for all dispatched tasks: a failed task cancels no
\* sibling, every task ends with its own success or error outcome, and the
\* results are reassembled only after every dispatched task has finished.
C22_JoinWaitsForAll ==
    [](AllTasksFinished) /\ [][pc = "gather" => NoTaskCancelled]_vars

\* the run has ended; the task of the first item failed first, and the task
\* of the second item ran after that to a successful comparison
C22_Witness ==
    /\ IsBatch
    /\ pc = "exited"
    /\ Len(counterfactual_tasks) = 2
    /\ calls.generate = <<0, 1>>
    /\ HasKey(counterfactual_tasks[1].result, "error")
    /\ counterfactual_tasks[2].done
    /\ ~HasKey(counterfactual_tasks[2].result, "error")
    /\ calls.compare = <<1>>

(***************************************************************************)
(* C23                                                                     *)
(***************************************************************************)
\* the dispatch loop of the batch is over: the slots have been allocated
Dispatched == IsBatch /\ Len(counterfactual_results) > 0

\* the tasks issued for the items of the batch: one for each item that asked
\* for a counterfactual evaluation with the label gender or race (in any
\* casing), none for an item that did not ask or whose category is religion
\* or age
TasksAsAsked ==
    \A i \in 1..Len(stdin.items) :
        /\ OptedIn(i) => Cardinality(TasksFor(i)) = 1
        /\ (~stdin.items[i].include_counterfactual
               \/ InputCategory(i) \in {"religion", "age"}) => TasksFor(i) = {}

\* C23: once the dispatch loop of a batch is over, exactly one
\* generation+comparison task has been issued for each item with
\* include_counterfactual=true and category gender or race, and none for an
\* item with include_counterfactual=false or with category religion or age.
C23_OneTaskPerOptedInItem == Dispatched => TasksAsAsked

\* the same, on the runs where the generator capability can be constructed
C23_WithGenerator == (Dispatched /\ ~GeneratorMissing) => TasksAsAsked

(***************************************************************************)
(* C24                                                                     *)
(***************************************************************************)
\* a score that lies in [0,1] (scores are counted in tenths)
InUnitInterval(x) == 0 <= x /\ x <= 10

\* the results evaluate_batch / evaluate_response has returned
ReturnedResults ==
    IF Len(ret) = 0 THEN <<>>
    ELSE IF IsBatch THEN ret[1].results ELSE <<ret[1].result>>

\* the six score fields of a result
ScoreFields(r) ==
    {r.metrics.toxicity.toxic_fraction,
     r.metrics.toxicity.expected_max_toxicity,
     r.metrics.toxicity.toxicity_probability,
     r.metrics.stereotype.stereotype_association,
     r.metrics.stereotype.cooccurrence_bias,
     r.metrics.stereotype.stereotype_fraction}

\* the toxicity scorer returned a value outside [0,1]
ScorerOutOfRange ==
    \E k \in 1..Len(calls.toxicity) : calls.toxicity[k].outcome = "out_of_range"

\* C24: every toxicity and stereotype score field of every returned result is
\* a number in [0,1]: a scorer value that is missing, None or not a number is
\* replaced by 0.0 and a value outside [0,1] is clamped.
C24_ScoresInUnitInterval ==
    \A i \in 1..Len(ReturnedResults) :
        \A x \in ScoreFields(ReturnedResults[i]) : x \in Int /\ InUnitInterval(x)

\* the same, on the runs where the scorers keep to [0,1] themselves
C24_DefaultsOnly ==
    ~ScorerOutOfRange =>
        \A i \in 1..Len(ReturnedResults) :
            \A x \in ScoreFields(ReturnedResults[i]) : InUnitInterval(x)

(***************************************************************************)
(* C25                                                                     *)
(***************************************************************************)
\* the input indices of the items of group g, in the order of the group
GroupIndices(g) ==
    [k \in 1..Len(category_groups[g].items) |-> category_groups[g].items[k].index]

\* the response texts of group g as the input has them, in the order of the group
GroupInputResponses(g) ==
    [k \in 1..Len(category_groups[g].items) |->
        stdin.items[category_groups[g].items[k].index + 1].user_response.v]

\* C25: grouping partitions the validated items by resolved category: every
\* item is in exactly one group (it is in the group of its resolved category,
\* a group holds items of its own category only and none of them twice, and
\* no two groups have the same category); the groups stand in the order in which
\* their category first appears in the batch and the stereotype scorer is
\* called for them in that order; and within a group the items and the
\* response texts handed to the scorer keep their relative input order.
C25_GroupsPartitionInOrder ==
    (IsBatch /\ Len(category_groups) > 0) =>
        /\ \A i \in 1..Len(stdin.items) :
              \E g \in 1..Len(category_groups) :
                 /\ category_groups[g].category = InputCategory(i)
                 /\ \E k \in 1..Len(category_groups[g].items) :
                       category_groups[g].items[k].index = i - 1
        /\ \A g \in 1..Len(category_groups) :
              /\ Len(category_groups[g].items) > 0
              /\ \A k \in 1..Len(category_groups[g].items) :
                    InputCategory(category_groups[g].items[k].index + 1)
                        = category_groups[g].category
              /\ \A k \in 1..Len(category_groups[g].items) - 1 :
                    category_groups[g].items[k].index
                        < category_groups[g].items[k + 1].index
              /\ \A h \in (g + 1)..Len(category_groups) :
                    /\ category_groups[g].category # category_groups[h].category
                    /\ category_groups[g].items[1].index
                           < category_groups[h].items[1].index
        /\ Len(calls.stereotype) = group_pos - 1
        /\ Len(calls.stereotype) <= Len(category_groups)
        /\ pc # "stereotype" => Len(calls.stereotype) = Len(category_groups)
        /\ \A k \in 1..Len(calls.stereotype) :
              /\ calls.stereotype[k].category = category_groups[k].category
              /\ calls.stereotype[k].responses = GroupInputResponses(k)

\* a returned batch of five items in four groups: the first group, race,
\* holds the first and the last item, and the scorer was called for race,
\* religion, age and gender in that order, the order of first appearance
C25_Witness ==
    /\ BatchReturned
    /\ Len(stdin.items) = 5
    /\ Len(category_groups) = 4
    /\ GroupIndices(1) = <<0, 4>>
    /\ [k \in 1..4 |-> calls.stereotype[k].category] = <<"race", "religion", "age", "gender">>
    /\ calls.stereotype[1].responses = <<"rude", "rude">>

(***************************************************************************)
(* C26                                                                     *)
(***************************************************************************)
\* evaluator.py lines 84-183: evaluate_response on the fields of item, called
\* on a new evaluator whose scorers behave as toxicity, stereotype and
\* counterfactual say: whether it raises, and the result it returns
evaluate_response(item, toxicity, stereotype, counterfactual) ==
    LET question_text == StrOrEmpty(item.question_text)
        user_response == StrOrEmpty(item.user_response)
    IN IF Strip(user_response) = "" \/ ~IsStr(item.category)
       THEN [raised |-> TRUE, result |-> <<>>]
       ELSE LET category == item.category.v
                langfair_category == LangfairCategory(category)
                generator == /\ item.include_counterfactual
                             /\ Lower(category) \in {"gender", "race"}
                             /\ GeneratorAvailable(NoHandles)
                field == ResponseCounterfactualField(
                             ResponseCounterfactual(
                                 IF generator THEN counterfactual ELSE "none",
                                 langfair_category))
                result == ResponseResult(
                              ResponseToxicity(toxicity, question_text, user_response),
                              ResponseStereotype(stereotype, user_response,
                                                 langfair_category),
                              category)
            IN IF field.raised THEN [raised |-> TRUE, result |-> <<>>]
               ELSE [raised |-> FALSE,
                     result |-> << [result EXCEPT !.metrics.counterfactual =
                                                      field.value] >>]

\* the behaviour the scorers showed in the run: the outcome of the first
\* call of each, "raise" / "full" standing in where no call was made
ToxicityBehaviour ==
    IF Len(calls.toxicity) > 0 THEN calls.toxicity[1].outcome ELSE "raise"
StereotypeBehaviour ==
    IF Len(calls.stereotype) > 0 THEN calls.stereotype[1].outcome ELSE "raise"
CounterfactualBehaviour ==
    IF Len(counterfactual_tasks) = 0 \/ ~counterfactual_tasks[1].done THEN "full"
    ELSE IF counterfactual_tasks[1].result = ErrorMarker("generation failed")
         THEN "generate_raises"
    ELSE IF counterfactual_tasks[1].result = ErrorMarker("comparison failed")
         THEN "compare_raises"
    ELSE "full"

\* evaluate_batch has ended on a batch of one item
OneItemBatchOver == IsBatch /\ Len(stdin.items) = 1 /\ Finished

\* the batch of one item ended as evaluate_response ends on that item
AgreesWithEvaluateResponse ==
    LET single == evaluate_response(stdin.items[1], ToxicityBehaviour,
                                    StereotypeBehaviour, CounterfactualBehaviour)
    IN /\ (exc # NoException) <=> single.raised
       /\ exc = NoException =>
             /\ Len(ret) = 1
             /\ ret[1].results = single.result

\* C26: for the same question, response, category and scorer behaviour,
\* evaluate_batch on a batch of one item raises exactly if evaluate_response
\* raises on that item, and otherwise returns as its single result the
\* success flag and the toxicity, stereotype and counterfactual metrics that
\* evaluate_response returns.
C26_OneItemBatchAsSingle == OneItemBatchOver => AgreesWithEvaluateResponse

\* the same, on the runs where the toxicity scorer returned no per-item data
\* with one entry per item
C26_WithoutPerItemData ==
    (OneItemBatchOver /\ ToxicityBehaviour \notin {"per_item", "numbers"}) =>
        AgreesWithEvaluateResponse

\* the operator is the evaluate_response the worker runs on a single-item
\* payload (which passes no include_counterfactual)
C26_OperatorIsSinglePath ==
    (stdin.kind = "object" /\ stdin.type = "single" /\ Finished) =>
        LET single == evaluate_response(
                          [stdin.items[1] EXCEPT !.include_counterfactual = FALSE],
                          ToxicityBehaviour, StereotypeBehaviour, "none")
        IN /\ (exc # NoException) <=> single.raised
           /\ exc = NoException => ret = << ResponseDocument(single.result[1]) >>

====
